---- MODULE Spec2Model ----
(***************************************************************************)
(* Workspace dependency scheduler and execution engine of cyrus            *)
(* (src/src/workspace/mod.rs).                                             *)
(*                                                                         *)
(* One behaviour is one CLI invocation: a workspace descriptor has been    *)
(* loaded (WorkspaceCommands::build / ::test call load_workspace first),   *)
(* then build_workspace, test_workspace, run_in_workspace or run_script    *)
(* runs member subprocesses.                                               *)
(* Members are referred to by their index in workspace.members, which is   *)
(* what the &WorkspaceMember references of the code denote.                *)
(*                                                                         *)
(* SpecRegistry is the member registry and its persistence: a manager made *)
(* by WorkspaceManager::new() on which load_workspace, init_workspace,     *)
(* import_workspace, add_member, remove_member, add_script and             *)
(* list_members are called, with save_workspace as the steps of            *)
(* std::fs::write on the descriptor file.                                  *)
(***************************************************************************)
EXTENDS Integers, Sequences, FiniteSets, TLC

VARIABLES
    members,      \* workspace.members : Seq of [name, enabled, dependencies]
    scripts,      \* workspace.scripts : script name -> WorkspaceScript
    max_parallel_jobs, \* workspace.shared_config.max_parallel_jobs: <<>> or <<n>>
    op,           \* the entry point: "none" | "build" | "test" | "run" | "script"
    args,         \* its other arguments: [member_names, script_name]
    parallel,     \* its parallel argument (the script's run_parallel for run_script)
    pc,           \* "idle" | "run" | "done"
    order,        \* <<>> or <<r>>: r is the value calculate_build_order returned
    batches,      \* the member lists the engine runs one after the other
    batch_idx,    \* position in batches of the list being run (1-based)
    cursor,       \* how many members of that list have been started
    status,       \* per member subprocess: "idle" | "running" | "ok" | "failed"
    result,       \* what the entry point returned: [state, error]
    loaded,       \* current_workspace is Some
    root_path,    \* workspace.root_path
    disk,         \* descriptor file path -> Absent | Partial | TomlFile(doc)
    dirs,         \* member directories: <<root, path, has cyrus.toml>>
    calls,        \* number of registry operations called so far
    saving,       \* <<>> or <<[workspace, path, adopt]>>: argument of save_workspace
    calc          \* locals of a calculate_build_order under way:
                  \* [build_order, remaining, processed, iterations]

vars == <<members, scripts, max_parallel_jobs, op, args, parallel, pc, order,
          batches, batch_idx, cursor, status, result,
         loaded, root_path, disk, dirs, calls, saving, calc>>

----------------------------------------------------------------------------
(* Bounds of the model *)

NumMembers == 3      \* members in the loaded workspace
MaxEdges == 2        \* dependency entries in the whole workspace
MaxDisabled == 1     \* members whose enabled flag is false
MaxJobs == 2         \* the max_parallel_jobs hint of the loaded workspace
MaxTargets == 2      \* names in the member list given to run_in_workspace

MemberNames == <<"A", "B", "C", "D", "E", "F">>
GhostName == "Z"     \* a name no member has (removed member, hand-edited file)

Idx == 1..NumMembers
DepNames == {MemberNames[i] : i \in Idx} \cup {GhostName}

RECURSIVE KSubsets(_, _)
KSubsets(S, k) ==
    IF k = 0 THEN {{}}
    ELSE LET smaller == KSubsets(S, k - 1)
         IN  smaller \cup {T \cup {x} : T \in smaller, x \in S}

MakeMembers(edges, disabled) ==
    [i \in Idx |->
        [name         |-> MemberNames[i],
         enabled      |-> i \notin disabled,
         dependencies |-> {e[2] : e \in {f \in edges : f[1] = i}}]]

LoadableMembers ==
    {MakeMembers(edges, disabled) :
        edges \in KSubsets(Idx \X DepNames, MaxEdges),
        disabled \in KSubsets(Idx, MaxDisabled)}

----------------------------------------------------------------------------
(* Error values *)

NoError == [kind |-> "none", message |-> <<>>]

\* CyrusError::Workspace { message }: the message is kept as its words
WorkspaceError(message) == [kind |-> "Workspace", message |-> message]

CircularMessage ==
    <<"Circular", "dependency", "detected", "in", "workspace", "members">>

\* CyrusError::CommandFailed { command, code } built by run_in_member: the
\* command string as its words, the exit code of the child
CommandFailed(command, code) ==
    [kind |-> "CommandFailed", message |-> command, code |-> code]

\* an error that does not say which script is missing
ScriptNotFoundUnnamed(script_name) == WorkspaceError(<<"Script", "not", "found">>)

\* format!("Script '{}' not found", script_name)
ScriptNotFound(script_name) ==
    WorkspaceError(<<"Script", script_name, "not", "found">>)

----------------------------------------------------------------------------
(* calculate_build_order *)

\* a build order computed without the enabled filter
EnabledMembersUnfiltered(ms) == [i \in 1..Len(ms) |-> i]

\* members.iter().filter(|m| m.enabled).collect()
EnabledMembers(ms) ==
    SelectSeq([i \in 1..Len(ms) |-> i], LAMBDA i : ms[i].enabled)

\* a scan that takes every dependency as resolved
DependenciesResolvedAlways(member, processed) == TRUE

\* member.dependencies.iter().all(|dep| processed.contains(dep))
DependenciesResolved(member, processed) ==
    \A dep \in member.dependencies : dep \in processed

\* a scan that puts each placed member in front of the batch
PushBatchFront(current_batch, m) == <<m>> \o current_batch

\* current_batch.push(*member)
PushBatch(current_batch, m) == Append(current_batch, m)

\* the for loop over remaining: processed grows while the scan is under way
RECURSIVE ScanRemaining(_, _, _, _)
ScanRemaining(ms, remaining, i, acc) ==
    IF i > Len(remaining) THEN acc
    ELSE LET m == remaining[i]
         IN  IF DependenciesResolved(ms[m], acc.processed)
             THEN ScanRemaining(ms, remaining, i + 1,
                      [current_batch   |-> PushBatch(acc.current_batch, m),
                       processed       |-> acc.processed \cup {ms[m].name},
                       batch_processed |-> TRUE])
             ELSE ScanRemaining(ms, remaining, i + 1, acc)

\* a retain that keeps every member
RetainAll(ms, remaining, processed) == remaining

\* remaining.retain(|member| !processed.contains(&member.name))
Retain(ms, remaining, processed) ==
    SelectSeq(remaining, LAMBDA m : ms[m].name \notin processed)

\* a loop that breaks out with the batches found so far instead of failing
CycleDetectedBreak(build_order, remaining) ==
    [ok |-> TRUE, batches |-> build_order, error |-> NoError]

\* return Err(CyrusError::Workspace { message: "Circular dependency ..." })
CycleDetected(build_order, remaining) ==
    [ok |-> FALSE, batches |-> <<>>, error |-> WorkspaceError(CircularMessage)]

\* if !current_batch.is_empty() { build_order.push(current_batch) }
PushOrder(build_order, current_batch) ==
    IF current_batch # <<>> THEN Append(build_order, current_batch)
    ELSE build_order

\* the while loop
RECURSIVE CalcLoop(_, _, _, _)
CalcLoop(ms, build_order, remaining, processed) ==
    IF remaining = <<>>
    THEN [ok |-> TRUE, batches |-> build_order, error |-> NoError]
    ELSE LET scan == ScanRemaining(ms, remaining, 1,
                        [current_batch   |-> <<>>,
                         processed       |-> processed,
                         batch_processed |-> FALSE])
         IN  IF ~scan.batch_processed
             THEN CycleDetected(build_order, remaining)
             ELSE CalcLoop(ms,
                           PushOrder(build_order, scan.current_batch),
                           Retain(ms, remaining, scan.processed),
                           scan.processed)

calculate_build_order(ms) == CalcLoop(ms, <<>>, EnabledMembers(ms), {})

\* no calculate_build_order is under way
NoCalc == [build_order |-> <<>>, remaining |-> <<>>, processed |-> {}, iterations |-> 0]

----------------------------------------------------------------------------
(* Scripts and entry point arguments *)

NoScripts == <<>>    \* HashMap::new()

\* member_names: <<>> is None, <<S>> is Some(S); script_name: "" when unused
NoArgs == [member_names |-> <<>>, script_name |-> ""]

\* A command string is kept as its sequence of words and whitespace runs.
\* script.command.split_whitespace().collect()
SplitWhitespace(command) == SelectSeq(command, LAMBDA t : t # " ")

ScriptNames == {"seq_stop", "seq_go", "par_stop", "par_go", "blank"}

\* the scripts of a loaded workspace, all with the same run_in_members
ScriptsFor(targets) ==
    [n \in ScriptNames |->
        [command           |-> IF n = "blank" THEN <<" ">> ELSE <<"lint", " ", "--fix">>,
         run_in_members    |-> targets,
         run_parallel      |-> n \in {"par_stop", "par_go"},
         continue_on_error |-> n \in {"seq_go", "par_go"}]]

ScriptTargetSets == {{}, {MemberNames[1]}, {MemberNames[2], GhostName}}

\* dependency graphs of the workspaces the engine is run on: none, a chain,
\* a cycle
EngineGraphs ==
    {{}, {<<2, MemberNames[1]>>}, {<<1, MemberNames[2]>>, <<2, MemberNames[1]>>}}

\* the command and arguments run_in_workspace is called with
RunCommand == <<"check">>

\* a filter that forgets the member name list
RunTargetsAllEnabled(ms, member_names) ==
    SelectSeq([i \in 1..Len(ms) |-> i], LAMBDA i : ms[i].enabled)

\* run_in_workspace: the filter over workspace.members, in registry order
RunTargets(ms, member_names) ==
    IF member_names # <<>>
    THEN SelectSeq([i \in 1..Len(ms) |-> i],
             LAMBDA i : ms[i].name \in member_names[1] /\ ms[i].enabled)
    ELSE SelectSeq([i \in 1..Len(ms) |-> i], LAMBDA i : ms[i].enabled)

\* a filter that forgets the enabled flag of the named members
ScriptTargetsNoEnabledFilter(ms, run_in_members) ==
    IF run_in_members = {}
    THEN SelectSeq([i \in 1..Len(ms) |-> i], LAMBDA i : ms[i].enabled)
    ELSE SelectSeq([i \in 1..Len(ms) |-> i], LAMBDA i : ms[i].name \in run_in_members)

\* a filter that forgets run_in_members
ScriptTargetsAll(ms, run_in_members) ==
    SelectSeq([i \in 1..Len(ms) |-> i], LAMBDA i : ms[i].enabled)

\* run_script: the filter over workspace.members, in registry order
ScriptTargets(ms, run_in_members) ==
    IF run_in_members = {}
    THEN SelectSeq([i \in 1..Len(ms) |-> i], LAMBDA i : ms[i].enabled)
    ELSE SelectSeq([i \in 1..Len(ms) |-> i],
             LAMBDA i : ms[i].name \in run_in_members /\ ms[i].enabled)

----------------------------------------------------------------------------
(* The workspace descriptor and the file system *)

store == <<loaded, root_path, disk, dirs, calls, saving>>

\* the directories a workspace is kept in
Paths == {"ws", "new"}

DescriptorName == "cyrus-workspace.toml"

Files == Paths \X {DescriptorName}

\* contents of a descriptor file: none, a truncated or partly written text,
\* or a complete TOML document
Absent == [kind |-> "absent"]

Partial == [kind |-> "partial"]

TomlFile(doc) == [kind |-> "toml", doc |-> doc]

\* struct Workspace, the fields the operations read or write
Workspace(root, ms, sc, jobs) ==
    [root_path |-> root, members |-> ms, scripts |-> sc, max_parallel_jobs |-> jobs]

\* self.current_workspace when it is Some
CurrentWorkspace == Workspace(root_path, members, scripts, max_parallel_jobs)

\* toml::to_string_pretty over the derived Serialize: an Option that is None
\* writes no key
to_string_pretty(workspace) ==
    IF workspace.max_parallel_jobs = <<>>
    THEN [root_path |-> workspace.root_path,
          members   |-> workspace.members,
          scripts   |-> workspace.scripts]
    ELSE [root_path |-> workspace.root_path,
          members   |-> workspace.members,
          scripts   |-> workspace.scripts,
          max_parallel_jobs |-> workspace.max_parallel_jobs[1]]

\* toml::from_str over the derived Deserialize: a missing key of an Option
\* reads as None; a text that is no complete document is a parse error
from_str(content) ==
    IF content.kind # "toml"
    THEN [ok |-> FALSE]
    ELSE [ok |-> TRUE,
          workspace |->
              Workspace(content.doc.root_path, content.doc.members,
                        content.doc.scripts,
                        IF "max_parallel_jobs" \in DOMAIN content.doc
                        THEN <<content.doc.max_parallel_jobs>>
                        ELSE <<>>)]

\* save_workspace: path.join("cyrus-workspace.toml")
SaveFile(path) == <<path, DescriptorName>>

\* a load that reads the descriptor of a fixed directory
LoadFileFixed(path) == <<"ws", DescriptorName>>

\* load_workspace: path.join("cyrus-workspace.toml")
LoadFile(path) == <<path, DescriptorName>>

\* the manager holds the workspace whose descriptor is in "ws"
LoadedStore ==
    /\ loaded = TRUE
    /\ root_path = "ws"
    /\ disk = [f \in Files |->
                  IF f = LoadFile("ws")
                  THEN TomlFile(to_string_pretty(
                           Workspace("ws", members, scripts, max_parallel_jobs)))
                  ELSE Absent]
    /\ dirs = {}
    /\ calls = 0
    /\ saving = <<>>

----------------------------------------------------------------------------
(* State after load_workspace *)

Init ==
    /\ members \in LoadableMembers
    /\ scripts = NoScripts
    /\ max_parallel_jobs = <<MaxJobs>>
    /\ op = "none"
    /\ args = NoArgs
    /\ parallel = FALSE
    /\ pc = "idle"
    /\ order = <<>>
    /\ batches = <<>>
    /\ batch_idx = 1
    /\ cursor = 0
    /\ status = [i \in Idx |-> "idle"]
    /\ result = [state |-> "pending", error |-> NoError]
    /\ LoadedStore
    /\ calc = NoCalc

----------------------------------------------------------------------------
(* Execution engine *)

\* a run that switches every member on in the workspace it was given
SharedBorrowEnables ==
    /\ members' = [i \in 1..Len(members) |-> [members[i] EXCEPT !.enabled = TRUE]]
    /\ UNCHANGED <<store, scripts, max_parallel_jobs>>

\* run_in_workspace, build_workspace, test_workspace, run_script and the
\* helpers they call take &self and hold the workspace through
\* get_current_workspace(): nothing of it is assigned and nothing is saved
SharedBorrow == UNCHANGED <<store, members, scripts, max_parallel_jobs>>

CurrentList == batches[batch_idx]

Started(i) == status[i] # "idle"
Terminated(i) == status[i] \in {"ok", "failed"}

\* build_workspace: if parallel && batch.len() > 1 { run_parallel } else { for member in batch }
BatchRunsParallel(par, batch) == par /\ Len(batch) > 1

\* whether the list being run goes through run_parallel
ListParallel ==
    IF op = "build" THEN BatchRunsParallel(parallel, CurrentList) ELSE parallel

\* a join that resolves as soon as one future has
JoinAllReadyAny(list, st) == \E k \in 1..Len(list) : st[list[k]] \in {"ok", "failed"}

\* a join that resolves at the first Err, as try_join_all does
JoinAllReadyFirstError(list, st) ==
    \/ \A k \in 1..Len(list) : st[list[k]] \in {"ok", "failed"}
    \/ \E k \in 1..Len(list) : st[list[k]] = "failed"

\* futures::future::join_all(futures).await resolves when every future has
JoinAllReady(list, st) == \A k \in 1..Len(list) : st[list[k]] \in {"ok", "failed"}

\* a results loop that lets every Err pass
AnyFailedIgnored(list, st) == FALSE

\* the results loop of run_parallel / run_parallel_with_error_handling
AnyFailed(list, st) == \E k \in 1..Len(list) : st[list[k]] = "failed"

\* the continue_on_error argument of the *_with_error_handling functions;
\* run_sequential, run_parallel and the loop of build_workspace have none
ContinueOnError ==
    op = "script" /\ scripts[args.script_name].continue_on_error

\* the command and arguments handed to run_in_member, as words
CommandOf(o) ==
    IF o = "build" THEN <<"build">>
    ELSE IF o = "test" THEN <<"test">>
    ELSE IF o = "run" THEN RunCommand
    ELSE SplitWhitespace(scripts[args.script_name].command)

\* status.code() of the failing child of member i: the children fail with
\* codes that differ from member to member
ExitCode(i) == <<i>>

\* the Err of run_in_member for member i: "cyrus run <command> <args>" when
\* the member directory holds cyrus.toml, "<command> <args>" otherwise
RunInMemberError(o, i, has_cyrus_config) ==
    CommandFailed(IF has_cyrus_config THEN <<"cyrus", "run">> \o CommandOf(o)
                  ELSE CommandOf(o),
                  ExitCode(i))

\* "Some workspace operations failed"
SomeOperationsFailed ==
    WorkspaceError(<<"Some", "workspace", "operations", "failed">>)

\* a results loop that keeps the last Err of the list
LastFailed(list, st) ==
    list[CHOOSE k \in 1..Len(list) :
             st[list[k]] = "failed" /\ \A j \in (k + 1)..Len(list) : st[list[j]] # "failed"]

\* for (i, result) in results.into_iter().enumerate(): the member of the
\* first Err in list order
FirstFailed(list, st) ==
    list[CHOOSE k \in 1..Len(list) :
             st[list[k]] = "failed" /\ \A j \in 1..(k - 1) : st[list[j]] # "failed"]

\* the status of the member started last in the current list
PrevStatus == IF cursor = 0 THEN "none" ELSE status[CurrentList[cursor]]

\* a sequential loop that goes on after an Err whatever the flag
MayStartNextAfterFailure(is_parallel, continue_on_error, prev) ==
    is_parallel \/ prev \in {"none", "ok", "failed"}

\* a sequential loop that does not await the member it started
MayStartNextNoAwait(is_parallel, continue_on_error, prev) == TRUE

\* whether the loop takes the next member: join_all polls every future, a
\* sequential loop awaits the previous member and stops at its Err unless
\* continue_on_error
MayStartNext(is_parallel, continue_on_error, prev) ==
    \/ is_parallel
    \/ prev \in {"none", "ok"}
    \/ continue_on_error /\ prev = "failed"

\* build_workspace up to the start of its for loop
BuildWorkspace(par) ==
    /\ pc = "idle"
    /\ LET build_order == calculate_build_order(members)
       IN  /\ order' = <<build_order>>
           /\ IF build_order.ok
              THEN /\ batches' = build_order.batches
                   /\ pc' = "run"
                   /\ result' = result
              ELSE /\ batches' = <<>>
                   /\ pc' = "done"
                   /\ result' = [state |-> "err", error |-> build_order.error]
    /\ op' = "build"
    /\ parallel' = par
    /\ batch_idx' = 1
    /\ cursor' = 0
    /\ args' = NoArgs
    /\ SharedBorrow
    /\ UNCHANGED calc
    /\ UNCHANGED <<status>>

\* test_workspace up to its call of run_parallel / run_sequential
TestWorkspace(par) ==
    /\ pc = "idle"
    /\ op' = "test"
    /\ parallel' = par
    /\ batches' = <<EnabledMembers(members)>>
    /\ pc' = "run"
    /\ batch_idx' = 1
    /\ cursor' = 0
    /\ args' = NoArgs
    /\ SharedBorrow
    /\ UNCHANGED calc
    /\ UNCHANGED <<order, status, result>>

\* run_in_workspace up to its call of run_parallel / run_sequential
RunInWorkspace(member_names, par) ==
    /\ pc = "idle"
    /\ op' = "run"
    /\ args' = [member_names |-> member_names, script_name |-> ""]
    /\ parallel' = par
    /\ LET target_members == RunTargets(members, member_names)
       IN  IF target_members = <<>>
           THEN /\ batches' = <<>>
                /\ pc' = "done"
                /\ result' = [state |-> "ok", error |-> NoError]
           ELSE /\ batches' = <<target_members>>
                /\ pc' = "run"
                /\ result' = result
    /\ batch_idx' = 1
    /\ cursor' = 0
    /\ SharedBorrow
    /\ UNCHANGED calc
    /\ UNCHANGED <<order, status>>

\* run_script up to its call of run_*_with_error_handling; command_parts[0]
\* panics when the command has no word
RunScript(script_name) ==
    /\ pc = "idle"
    /\ op' = "script"
    /\ args' = [member_names |-> <<>>, script_name |-> script_name]
    /\ IF script_name \notin DOMAIN scripts
       THEN /\ batches' = <<>>
            /\ pc' = "done"
            /\ result' = [state |-> "err", error |-> ScriptNotFound(script_name)]
            /\ parallel' = parallel
       ELSE LET script == scripts[script_name]
                target_members == ScriptTargets(members, script.run_in_members)
                command_parts == SplitWhitespace(script.command)
            IN  IF command_parts = <<>>
                THEN /\ batches' = <<>>
                     /\ pc' = "done"
                     /\ result' = [state |-> "panic", error |-> NoError]
                     /\ parallel' = parallel
                ELSE /\ batches' = <<target_members>>
                     /\ pc' = "run"
                     /\ result' = result
                     /\ parallel' = script.run_parallel
    /\ batch_idx' = 1
    /\ cursor' = 0
    /\ SharedBorrow
    /\ UNCHANGED calc
    /\ UNCHANGED <<order, status>>

\* run_in_member up to Command::status(): the child process is spawned.
\* Sequentially the previous member was awaited and returned Ok; under
\* join_all the futures are polled in list order without waiting.
StartMember ==
    /\ pc = "run"
    /\ batch_idx <= Len(batches)
    /\ cursor < Len(CurrentList)
    /\ MayStartNext(ListParallel, ContinueOnError, PrevStatus)
    /\ status' = [status EXCEPT ![CurrentList[cursor + 1]] = "running"]
    /\ cursor' = cursor + 1
    /\ SharedBorrow
    /\ UNCHANGED calc
    /\ UNCHANGED <<op, args, parallel, pc, order, batches, batch_idx, result>>

\* the child process of member i exits, status.success() or not
Terminate(i, success) ==
    /\ status[i] = "running"
    /\ status' = [status EXCEPT ![i] = IF success THEN "ok" ELSE "failed"]
    /\ SharedBorrow
    /\ UNCHANGED calc
    /\ UNCHANGED <<op, args, parallel, pc, order, batches, batch_idx, cursor, result>>

\* run_in_member(...).await? in a sequential loop: the error is returned at once
SequentialFail ==
    /\ pc = "run"
    /\ batch_idx <= Len(batches)
    /\ ~ListParallel
    /\ cursor > 0
    /\ status[CurrentList[cursor]] = "failed"
    /\ ~ContinueOnError
    /\ pc' = "done"
    /\ \E has_cyrus_config \in BOOLEAN :
           result' = [state |-> "err",
                      error |-> RunInMemberError(op, CurrentList[cursor], has_cyrus_config)]
    /\ SharedBorrow
    /\ UNCHANGED calc
    /\ UNCHANGED <<op, args, parallel, order, batches, batch_idx, cursor, status>>

\* the sequential loop ran out of members: every one returned Ok, or
\* continue_on_error is set (has_errors && !continue_on_error is false)
SequentialDone ==
    /\ pc = "run"
    /\ batch_idx <= Len(batches)
    /\ ~ListParallel
    /\ cursor = Len(CurrentList)
    /\ PrevStatus \in {"none", "ok"} \/ (ContinueOnError /\ PrevStatus = "failed")
    /\ batch_idx' = batch_idx + 1
    /\ cursor' = 0
    /\ SharedBorrow
    /\ UNCHANGED calc
    /\ UNCHANGED <<op, args, parallel, pc, order, batches, status, result>>

\* run_parallel / run_parallel_with_error_handling after join_all: return
\* the first Err unless continue_on_error, else Ok
JoinAll ==
    /\ pc = "run"
    /\ batch_idx <= Len(batches)
    /\ ListParallel
    /\ cursor = Len(CurrentList)
    /\ JoinAllReady(CurrentList, status)
    /\ IF AnyFailed(CurrentList, status) /\ ~ContinueOnError
       THEN /\ pc' = "done"
            /\ \E has_cyrus_config \in BOOLEAN :
                   result' = [state |-> "err",
                              error |-> RunInMemberError(op,
                                            FirstFailed(CurrentList, status),
                                            has_cyrus_config)]
            /\ UNCHANGED <<batch_idx, cursor>>
       ELSE IF op = "script" /\ AnyFailed(CurrentList, status) /\ ~ContinueOnError
       THEN /\ pc' = "done"
            /\ result' = [state |-> "err", error |-> SomeOperationsFailed]
            /\ UNCHANGED <<batch_idx, cursor>>
       ELSE /\ batch_idx' = batch_idx + 1
            /\ cursor' = 0
            /\ UNCHANGED <<pc, result>>
    /\ SharedBorrow
    /\ UNCHANGED calc
    /\ UNCHANGED <<op, args, parallel, order, batches, status>>

\* the entry point falls through to Ok(())
ReturnOk ==
    /\ pc = "run"
    /\ batch_idx > Len(batches)
    /\ pc' = "done"
    /\ result' = [state |-> "ok", error |-> NoError]
    /\ SharedBorrow
    /\ UNCHANGED calc
    /\ UNCHANGED <<op, args, parallel, order, batches, batch_idx, cursor, status>>

Next ==
    \/ \E par \in BOOLEAN : BuildWorkspace(par)
    \/ \E par \in BOOLEAN : TestWorkspace(par)
    \/ StartMember
    \/ \E i \in Idx, success \in BOOLEAN : Terminate(i, success)
    \/ SequentialFail
    \/ SequentialDone
    \/ JoinAll
    \/ ReturnOk

Spec == Init /\ [][Next]_vars

\* The four entry points of the execution engine, on workspaces that carry
\* scripts.
InitEngine ==
    /\ members \in {MakeMembers(edges, disabled) :
                       edges \in EngineGraphs,
                       disabled \in KSubsets(Idx, MaxDisabled)}
    /\ scripts \in {ScriptsFor(targets) : targets \in ScriptTargetSets}
    /\ max_parallel_jobs = <<MaxJobs>>
    /\ op = "none"
    /\ args = NoArgs
    /\ parallel = FALSE
    /\ pc = "idle"
    /\ order = <<>>
    /\ batches = <<>>
    /\ batch_idx = 1
    /\ cursor = 0
    /\ status = [i \in Idx |-> "idle"]
    /\ result = [state |-> "pending", error |-> NoError]
    /\ LoadedStore
    /\ calc = NoCalc

MemberNameLists == {<<>>} \cup {<<S>> : S \in KSubsets(DepNames, MaxTargets)}

NextEngine ==
    \/ \E par \in BOOLEAN : BuildWorkspace(par)
    \/ \E par \in BOOLEAN : TestWorkspace(par)
    \/ \E member_names \in MemberNameLists, par \in BOOLEAN :
           RunInWorkspace(member_names, par)
    \/ \E script_name \in ScriptNames \cup {"missing"} : RunScript(script_name)
    \/ StartMember
    \/ \E i \in Idx, success \in BOOLEAN : Terminate(i, success)
    \/ SequentialFail
    \/ SequentialDone
    \/ JoinAll
    \/ ReturnOk

SpecEngine == InitEngine /\ [][NextEngine]_vars

----------------------------------------------------------------------------
(* The member registry and its persistence *)

\* the variables of the execution engine, which no registry operation touches
engine == <<parallel, order, batches, batch_idx, cursor, status, calc>>

\* registry operations called in one behaviour
MaxCalls == 2

\* names add_member and remove_member are called with; a member is kept in
\* the directory of its own name under the workspace root
RegistryNames == {MemberNames[1], MemberNames[3]}

Ok == [state |-> "ok", error |-> NoError]

Err(error) == [state |-> "err", error |-> error]

Pending == [state |-> "pending", error |-> NoError]

\* get_current_workspace / get_current_workspace_mut on None
NoWorkspaceLoaded == WorkspaceError(<<"No", "workspace", "loaded">>)

\* format!("Member '{}' already exists", name)
MemberExists(name) == WorkspaceError(<<"Member", name, "already", "exists">>)

\* format!("Member '{}' not found", name)
MemberNotFound(name) == WorkspaceError(<<"Member", name, "not", "found">>)

\* format!("Project path does not exist: {:?}", member_path)
PathDoesNotExist(root, path) ==
    WorkspaceError(<<"Project", "path", "does", "not", "exist", root, path>>)

\* CyrusError::Io, from std::io::Error through `?`
IoError == [kind |-> "Io", message |-> <<>>]

\* the error of Project::save_to_file, through `?`
ProjectConfigError == [kind |-> "Other", message |-> <<"Failed", "to", "write", "cyrus.toml", "file">>]

\* a check that never finds the name
HasMemberNever(ms, name) == FALSE

\* a check that looks at the last member only
HasMemberLastOnly(ms, name) == ms # <<>> /\ ms[Len(ms)].name = name

\* workspace.members.iter().any(|m| m.name == name)
HasMember(ms, name) == \E i \in 1..Len(ms) : ms[i].name = name

\* a lookup that falls back to the first member
MemberPositionOrFirst(ms, name) ==
    IF \E i \in 1..Len(ms) : ms[i].name = name
    THEN CHOOSE i \in 1..Len(ms) :
             ms[i].name = name /\ \A j \in 1..(i - 1) : ms[j].name # name
    ELSE IF ms = <<>> THEN 0 ELSE 1

\* workspace.members.iter().position(|m| m.name == name); 0 is None
MemberPosition(ms, name) ==
    IF \E i \in 1..Len(ms) : ms[i].name = name
    THEN CHOOSE i \in 1..Len(ms) :
             ms[i].name = name /\ \A j \in 1..(i - 1) : ms[j].name # name
    ELSE 0

\* Vec::remove(member_index)
RemoveAt(ms, member_index) ==
    SubSeq(ms, 1, member_index - 1) \o SubSeq(ms, member_index + 1, Len(ms))

\* the WorkspaceMember add_member builds
NewMember(name) == [name |-> name, enabled |-> TRUE, dependencies |-> {}]

\* an insertion at the head of the list
PushMemberFront(ms, member) == <<member>> \o ms

\* workspace.members.push(member)
PushMember(ms, member) == Append(ms, member)

\* workspace.scripts.insert(name, script)
InsertScript(sc, name, script) ==
    [n \in DOMAIN sc \cup {name} |-> IF n = name THEN script ELSE sc[n]]

\* member_path.exists()
DirExists(ds, root, path) == \E d \in ds : d[1] = root /\ d[2] = path

\* std::fs::create_dir_all(&member_path)
CreateDirAll(ds, root, path) ==
    IF DirExists(ds, root, path) THEN ds ELSE ds \cup {<<root, path, FALSE>>}

\* std::fs::remove_dir_all(&member_path)
RemoveDirAll(ds, root, path) == {d \in ds : ~(d[1] = root /\ d[2] = path)}

\* create_dir_all, then project.save_to_file(member_path.join("cyrus.toml"))
WriteProjectConfig(ds, root, path) ==
    RemoveDirAll(ds, root, path) \cup {<<root, path, TRUE>>}

\* the call save_workspace(workspace, path); adopt: the caller stores the
\* workspace in current_workspace after the save returned Ok
SaveCall(workspace, path, adopt) ==
    <<[workspace |-> workspace, path |-> path, adopt |-> adopt]>>

\* a caller that drops the error of save_workspace
SaveFailedIgnored(error) == [state |-> "ok", error |-> NoError]

\* self.save_workspace(..)?: the caller returns the error of the save
SaveFailed(error) == [state |-> "err", error |-> error]

\* add_member up to its call of save_workspace; io is the step of the file
\* system that fails, if any
AddMember(name, language, create_project, io) ==
    /\ pc \in {"idle", "done"}
    /\ calls < MaxCalls
    /\ calls' = calls + 1
    /\ op' = "add_member"
    /\ args' = [name |-> name, language |-> language, create_project |-> create_project]
    /\ IF ~loaded
       THEN /\ pc' = "done"
            /\ result' = Err(NoWorkspaceLoaded)
            /\ saving' = <<>>
            /\ UNCHANGED <<members, dirs>>
       ELSE IF HasMember(members, name)
       THEN /\ pc' = "done"
            /\ result' = Err(MemberExists(name))
            /\ saving' = <<>>
            /\ UNCHANGED <<members, dirs>>
       ELSE IF create_project /\ io = "create_dir_all"
       THEN /\ pc' = "done"
            /\ result' = Err(IoError)
            /\ saving' = <<>>
            /\ UNCHANGED <<members, dirs>>
       ELSE IF create_project /\ language # <<>> /\ io = "save_to_file"
       THEN /\ pc' = "done"
            /\ result' = Err(ProjectConfigError)
            /\ saving' = <<>>
            /\ dirs' = CreateDirAll(dirs, root_path, name)
            /\ UNCHANGED members
       ELSE IF ~create_project /\ ~DirExists(dirs, root_path, name)
       THEN /\ pc' = "done"
            /\ result' = Err(PathDoesNotExist(root_path, name))
            /\ saving' = <<>>
            /\ UNCHANGED <<members, dirs>>
       ELSE LET pushed == PushMember(members, NewMember(name))
            IN  /\ members' = pushed
                /\ dirs' = IF ~create_project THEN dirs
                           ELSE IF language # <<>>
                                THEN WriteProjectConfig(dirs, root_path, name)
                                ELSE CreateDirAll(dirs, root_path, name)
                /\ saving' = SaveCall(Workspace(root_path, pushed, scripts,
                                                max_parallel_jobs),
                                      root_path, FALSE)
                /\ pc' = "saving"
                /\ result' = Pending
    /\ UNCHANGED <<engine, scripts, max_parallel_jobs, loaded, root_path, disk>>

\* remove_member up to its call of save_workspace; deleted_files: the call
\* has printed "Deleted files for member", remove_dir_all has returned Ok
RemoveMember(name, delete_files, io) ==
    /\ pc \in {"idle", "done"}
    /\ calls < MaxCalls
    /\ calls' = calls + 1
    /\ op' = "remove_member"
    /\ args' = [name |-> name, delete_files |-> delete_files,
                deleted_files |->
                    /\ loaded
                    /\ HasMember(members, name)
                    /\ delete_files
                    /\ DirExists(dirs, root_path, name)
                    /\ io # "remove_dir_all"]
    /\ LET member_index == MemberPosition(members, name)
       IN  IF ~loaded
           THEN /\ pc' = "done"
                /\ result' = Err(NoWorkspaceLoaded)
                /\ saving' = <<>>
                /\ UNCHANGED <<members, dirs>>
           ELSE IF member_index = 0
           THEN /\ pc' = "done"
                /\ result' = Err(MemberNotFound(name))
                /\ saving' = <<>>
                /\ UNCHANGED <<members, dirs>>
           ELSE LET removed == members[member_index].name
                    remaining == RemoveAt(members, member_index)
                IN  /\ members' = remaining
                    /\ IF delete_files /\ DirExists(dirs, root_path, removed)
                             /\ io = "remove_dir_all"
                       THEN /\ pc' = "done"
                            /\ result' = Err(IoError)
                            /\ saving' = <<>>
                            /\ dirs' = dirs
                       ELSE /\ dirs' = IF delete_files
                                       THEN RemoveDirAll(dirs, root_path, removed)
                                       ELSE dirs
                            /\ saving' = SaveCall(Workspace(root_path, remaining, scripts,
                                                            max_parallel_jobs),
                                                  root_path, FALSE)
                            /\ pc' = "saving"
                            /\ result' = Pending
    /\ UNCHANGED <<engine, scripts, max_parallel_jobs, loaded, root_path, disk>>

\* add_script up to its call of save_workspace
AddScript(name, script) ==
    /\ pc \in {"idle", "done"}
    /\ calls < MaxCalls
    /\ calls' = calls + 1
    /\ op' = "add_script"
    /\ args' = [name |-> name]
    /\ IF ~loaded
       THEN /\ pc' = "done"
            /\ result' = Err(NoWorkspaceLoaded)
            /\ saving' = <<>>
            /\ UNCHANGED scripts
       ELSE LET inserted == InsertScript(scripts, name, script)
            IN  /\ scripts' = inserted
                /\ saving' = SaveCall(Workspace(root_path, members, inserted,
                                                max_parallel_jobs),
                                      root_path, FALSE)
                /\ pc' = "saving"
                /\ result' = Pending
    /\ UNCHANGED <<engine, members, max_parallel_jobs, loaded, root_path, disk, dirs>>

\* list_members: the members in the order of workspace.members
ListMembers ==
    /\ pc \in {"idle", "done"}
    /\ op' = "list_members"
    /\ args' = NoArgs
    /\ pc' = "done"
    /\ result' = IF loaded
                 THEN [state |-> "ok", error |-> NoError, value |-> members]
                 ELSE Err(NoWorkspaceLoaded)
    /\ UNCHANGED <<engine, store, members, scripts, max_parallel_jobs>>

\* member_path.join("cyrus.toml").exists()
HasCyrusConfig(ds, root, path) == <<root, path, TRUE>> \in ds

\* get_last_modified: <<>> is None, <<"mtime">> the modification time of an
\* existing path
get_last_modified(ds, root, path) ==
    IF ~DirExists(ds, root, path) THEN <<>> ELSE <<"mtime">>

\* a count of all members
CountAll(ms) == Len(ms)

\* workspace.members.iter().filter(|m| m.enabled).count()
CountEnabled(ms) == Cardinality({i \in 1..Len(ms) : ms[i].enabled})

\* the MemberStatus list get_status builds, one entry per member in order
MemberStatuses(ms, ds, root) ==
    [i \in 1..Len(ms) |->
        [name             |-> ms[i].name,
         enabled          |-> ms[i].enabled,
         exists           |-> DirExists(ds, root, ms[i].name),
         has_cyrus_config |-> HasCyrusConfig(ds, root, ms[i].name),
         last_modified    |-> get_last_modified(ds, root, ms[i].name)]]

\* get_status; io = "metadata": std::fs::metadata or modified() fails on an
\* existing member path
GetStatus(io) ==
    /\ pc \in {"idle", "done"}
    /\ op' = "get_status"
    /\ args' = NoArgs
    /\ pc' = "done"
    /\ result' =
           IF ~loaded
           THEN Err(NoWorkspaceLoaded)
           ELSE IF io = "metadata"
                   /\ \E i \in 1..Len(members) : DirExists(dirs, root_path, members[i].name)
           THEN Err(IoError)
           ELSE [state |-> "ok", error |-> NoError,
                 value |-> [root_path       |-> root_path,
                            total_members   |-> Len(members),
                            enabled_members |-> CountEnabled(members),
                            member_statuses |-> MemberStatuses(members, dirs, root_path)]]
    /\ UNCHANGED <<engine, store, members, scripts, max_parallel_jobs>>

\* "Directory is not empty"
DirectoryNotEmpty == WorkspaceError(<<"Directory", "is", "not", "empty">>)

\* a load that reports a missing descriptor as a parse error
NoConfigurationFoundAsParse ==
    WorkspaceError(<<"Failed", "to", "parse", "workspace", "config">>)

\* "No workspace configuration found"
NoConfigurationFound == WorkspaceError(<<"No", "workspace", "configuration", "found">>)

\* format!("Failed to parse workspace config: {}", e)
ParseFailed == WorkspaceError(<<"Failed", "to", "parse", "workspace", "config">>)

\* format!("Failed to serialize workspace config: {}", e)
SerializeFailed == WorkspaceError(<<"Failed", "to", "serialize", "workspace", "config">>)

\* WorkspaceConfig::default(): Some(num_cpus::get() as u32)
DefaultJobs == <<MaxJobs>>

\* a test that looks for member directories only
DirHasMemberDirs(path) == \E d \in dirs : d[1] = path

\* path.exists() && path.read_dir()?.next().is_some()
DirNonEmpty(path) ==
    \/ disk[<<path, DescriptorName>>] # Absent
    \/ \E d \in dirs : d[1] = path

\* an import that keeps the root_path of the imported text
ImportRootPathKept(workspace, path) == workspace.root_path

\* workspace.root_path = path.clone()
ImportRootPath(workspace, path) == path

\* init_workspace up to its call of save_workspace
InitWorkspace(path, io) ==
    /\ pc \in {"idle", "done"}
    /\ calls < MaxCalls
    /\ calls' = calls + 1
    /\ op' = "init_workspace"
    /\ args' = [path |-> path]
    /\ IF DirNonEmpty(path)
       THEN /\ pc' = "done"
            /\ result' = Err(DirectoryNotEmpty)
            /\ saving' = <<>>
       ELSE IF io = "create_dir_all"
       THEN /\ pc' = "done"
            /\ result' = Err(IoError)
            /\ saving' = <<>>
       ELSE /\ saving' = SaveCall(Workspace(path, <<>>, NoScripts, DefaultJobs),
                                  path, TRUE)
            /\ pc' = "saving"
            /\ result' = Pending
    /\ UNCHANGED <<engine, members, scripts, max_parallel_jobs, loaded, root_path,
                   disk, dirs>>

\* import_workspace up to its call of save_workspace
ImportWorkspace(config, path) ==
    /\ pc \in {"idle", "done"}
    /\ calls < MaxCalls
    /\ calls' = calls + 1
    /\ op' = "import_workspace"
    /\ args' = [path |-> path]
    /\ LET parsed == from_str(config)
       IN  IF ~parsed.ok
           THEN /\ pc' = "done"
                /\ result' = Err(ParseFailed)
                /\ saving' = <<>>
           ELSE /\ saving' = SaveCall([parsed.workspace EXCEPT
                                          !.root_path = ImportRootPath(parsed.workspace, path)],
                                      path, TRUE)
                /\ pc' = "saving"
                /\ result' = Pending
    /\ UNCHANGED <<engine, members, scripts, max_parallel_jobs, loaded, root_path,
                   disk, dirs>>

\* load_workspace
LoadWorkspace(path, io) ==
    /\ pc \in {"idle", "done"}
    /\ op' = "load_workspace"
    /\ args' = [path |-> path]
    /\ pc' = "done"
    /\ LET content == disk[LoadFile(path)]
           parsed == from_str(content)
       IN  IF content = Absent
           THEN /\ result' = Err(NoConfigurationFound)
                /\ UNCHANGED <<loaded, root_path, members, scripts, max_parallel_jobs>>
           ELSE IF io = "read_to_string"
           THEN /\ result' = Err(IoError)
                /\ UNCHANGED <<loaded, root_path, members, scripts, max_parallel_jobs>>
           ELSE IF ~parsed.ok
           THEN /\ result' = Err(ParseFailed)
                /\ UNCHANGED <<loaded, root_path, members, scripts, max_parallel_jobs>>
           ELSE /\ result' = Ok
                /\ loaded' = TRUE
                /\ root_path' = parsed.workspace.root_path
                /\ members' = parsed.workspace.members
                /\ scripts' = parsed.workspace.scripts
                /\ max_parallel_jobs' = parsed.workspace.max_parallel_jobs
    /\ UNCHANGED <<engine, disk, dirs, calls, saving>>

\* save_workspace returns before the file is opened: to_string_pretty fails,
\* or std::fs::write cannot create the file
SaveWorkspaceFails(error) ==
    /\ pc = "saving"
    /\ pc' = "done"
    /\ result' = SaveFailed(error)
    /\ UNCHANGED <<engine, store, members, scripts, max_parallel_jobs, op, args>>

\* std::fs::write opens the file with truncation
SaveWorkspaceTruncate ==
    /\ pc = "saving"
    /\ pc' = "writing"
    /\ disk' = [disk EXCEPT ![SaveFile(saving[1].path)] = Partial]
    /\ UNCHANGED <<engine, members, scripts, max_parallel_jobs, op, args, result,
                   loaded, root_path, dirs, calls, saving>>

\* std::fs::write fails while writing the content
SaveWorkspaceWriteFails ==
    /\ pc = "writing"
    /\ pc' = "done"
    /\ result' = SaveFailed(IoError)
    /\ UNCHANGED <<engine, store, members, scripts, max_parallel_jobs, op, args>>

\* std::fs::write has written the whole content; save_workspace returns Ok
\* and the caller returns Ok, after init_workspace and import_workspace
\* stored the workspace in current_workspace
SaveWorkspaceDone ==
    /\ pc = "writing"
    /\ pc' = "done"
    /\ result' = Ok
    /\ disk' = [disk EXCEPT ![SaveFile(saving[1].path)] =
                   TomlFile(to_string_pretty(saving[1].workspace))]
    /\ IF saving[1].adopt
       THEN /\ loaded' = TRUE
            /\ root_path' = saving[1].workspace.root_path
            /\ members' = saving[1].workspace.members
            /\ scripts' = saving[1].workspace.scripts
            /\ max_parallel_jobs' = saving[1].workspace.max_parallel_jobs
       ELSE UNCHANGED <<loaded, root_path, members, scripts, max_parallel_jobs>>
    /\ UNCHANGED <<engine, op, args, dirs, calls, saving>>

\* the members of the descriptors found on disk
StoredMembers ==
    {<<NewMember(MemberNames[1])>>,
     <<NewMember(MemberNames[1]),
       [name |-> MemberNames[2], enabled |-> TRUE, dependencies |-> {MemberNames[1]}]>>}

\* the descriptor in "ws" before the manager is constructed: none, one that
\* an earlier run saved there, or one saved in "new" whose directory was
\* moved to "ws" afterwards (with a member that was switched off by hand)
StoredDescriptors ==
    {Absent} \cup
    {TomlFile(to_string_pretty(Workspace("ws", ms, NoScripts, DefaultJobs))) :
        ms \in StoredMembers} \cup
    {TomlFile(to_string_pretty(
         Workspace("new",
                   <<NewMember(MemberNames[1]),
                     [name |-> MemberNames[2], enabled |-> FALSE, dependencies |-> {}]>>,
                   NoScripts, DefaultJobs)))}

\* the texts import_workspace is called with: not a document, and a document
\* exported from a workspace kept in "ws" that sets no max_parallel_jobs
ImportConfigs ==
    {Partial,
     TomlFile(to_string_pretty(
         Workspace("ws", <<NewMember(MemberNames[3])>>, NoScripts, <<>>)))}

\* the scripts add_script is called with
AddedScripts ==
    {[command |-> <<"lint">>, run_in_members |-> {}, run_parallel |-> par,
      continue_on_error |-> FALSE] : par \in BOOLEAN}

\* WorkspaceManager::new() next to what the file system holds
InitRegistry ==
    /\ members = <<>>
    /\ scripts = NoScripts
    /\ max_parallel_jobs = <<>>
    /\ op = "none"
    /\ args = NoArgs
    /\ parallel = FALSE
    /\ pc = "idle"
    /\ order = <<>>
    /\ batches = <<>>
    /\ batch_idx = 1
    /\ cursor = 0
    /\ status = [i \in Idx |-> "idle"]
    /\ result = Pending
    /\ loaded = FALSE
    /\ root_path = ""
    /\ \E stored \in StoredDescriptors :
           /\ disk = [f \in Files |-> IF f = LoadFile("ws") THEN stored ELSE Absent]
           /\ dirs = IF stored = Absent
                     THEN {}
                     ELSE {<<"ws", stored.doc.members[i].name, TRUE>> :
                              i \in 1..Len(stored.doc.members)}
    /\ calls = 0
    /\ saving = <<>>
    /\ calc = NoCalc

NextRegistry ==
    \/ \E name \in RegistryNames, language \in {<<>>, <<"rust">>},
          create_project \in BOOLEAN,
          io \in {"none", "create_dir_all", "save_to_file"} :
           AddMember(name, language, create_project, io)
    \/ \E name \in RegistryNames, delete_files \in BOOLEAN,
          io \in {"none", "remove_dir_all"} :
           RemoveMember(name, delete_files, io)
    \/ \E script \in AddedScripts : AddScript("lint", script)
    \/ ListMembers
    \/ \E io \in {"none", "metadata"} : GetStatus(io)
    \/ \E path \in Paths, io \in {"none", "create_dir_all"} : InitWorkspace(path, io)
    \/ \E config \in ImportConfigs, path \in Paths : ImportWorkspace(config, path)
    \/ \E path \in Paths, io \in {"none", "read_to_string"} : LoadWorkspace(path, io)
    \/ \E error \in {SerializeFailed, IoError} : SaveWorkspaceFails(error)
    \/ SaveWorkspaceTruncate
    \/ SaveWorkspaceWriteFails
    \/ SaveWorkspaceDone

SpecRegistry == InitRegistry /\ [][NextRegistry]_vars

----------------------------------------------------------------------------
(* calculate_build_order, one iteration of its while loop at a time, on *)
(* member lists as a descriptor edited by hand can hold them             *)

\* how the members of the list are named: all differently, two names in
\* turn, or all alike
Namings ==
    {[i \in Idx |-> MemberNames[i]],
     [i \in Idx |-> MemberNames[1 + (i % 2)]],
     [i \in Idx |-> MemberNames[1]]}

NamedMemberList(naming, edges, disabled) ==
    [i \in Idx |->
        [name         |-> naming[i],
         enabled      |-> i \notin disabled,
         dependencies |-> {e[2] : e \in {f \in edges : f[1] = i}}]]

OrderInputs ==
    {NamedMemberList(naming, edges, disabled) :
        naming \in Namings,
        edges \in KSubsets(Idx \X DepNames, MaxEdges),
        disabled \in KSubsets(Idx, MaxDisabled)}

\* lines 589-591: the locals before the loop
CalcStart ==
    /\ pc = "idle"
    /\ op' = "build"
    /\ pc' = "calc"
    /\ calc' = [build_order |-> <<>>,
                remaining   |-> EnabledMembers(members),
                processed   |-> {},
                iterations  |-> 0]
    /\ UNCHANGED <<store, members, scripts, max_parallel_jobs, args, parallel, order,
                   batches, batch_idx, cursor, status, result>>

\* one pass through the body of `while !remaining.is_empty()`
CalcIterate ==
    /\ pc = "calc"
    /\ calc.remaining # <<>>
    /\ calc.iterations <= Len(members)
    /\ LET scan == ScanRemaining(members, calc.remaining, 1,
                       [current_batch   |-> <<>>,
                        processed       |-> calc.processed,
                        batch_processed |-> FALSE])
       IN  IF ~scan.batch_processed
           THEN /\ order' = <<CycleDetected(calc.build_order, calc.remaining)>>
                /\ pc' = "done"
                /\ calc' = [calc EXCEPT !.iterations = @ + 1]
           ELSE /\ calc' = [build_order |-> PushOrder(calc.build_order, scan.current_batch),
                            remaining   |-> Retain(members, calc.remaining, scan.processed),
                            processed   |-> scan.processed,
                            iterations  |-> calc.iterations + 1]
                /\ UNCHANGED <<order, pc>>
    /\ UNCHANGED <<store, members, scripts, max_parallel_jobs, op, args, parallel,
                   batches, batch_idx, cursor, status, result>>

\* the loop condition is false: Ok(build_order)
CalcReturn ==
    /\ pc = "calc"
    /\ calc.remaining = <<>>
    /\ order' = <<[ok |-> TRUE, batches |-> calc.build_order, error |-> NoError]>>
    /\ pc' = "done"
    /\ UNCHANGED <<store, members, scripts, max_parallel_jobs, op, args, parallel,
                   batches, batch_idx, cursor, status, result, calc>>

InitOrder ==
    /\ members \in OrderInputs
    /\ scripts = NoScripts
    /\ max_parallel_jobs = <<MaxJobs>>
    /\ op = "none"
    /\ args = NoArgs
    /\ parallel = FALSE
    /\ pc = "idle"
    /\ order = <<>>
    /\ batches = <<>>
    /\ batch_idx = 1
    /\ cursor = 0
    /\ status = [i \in Idx |-> "idle"]
    /\ result = [state |-> "pending", error |-> NoError]
    /\ LoadedStore
    /\ calc = NoCalc

NextOrder ==
    \/ CalcStart
    \/ CalcIterate
    \/ CalcReturn

SpecOrder == InitOrder /\ [][NextOrder]_vars

\* the function runs to its return without being suspended: it has no await
SpecOrderFair == SpecOrder /\ WF_vars(NextOrder)

----------------------------------------------------------------------------
(* The dependency graph over the enabled members *)

\* the enabled members that member b lists in its dependencies
EnabledDepsOf(ms, b) ==
    {a \in 1..Len(ms) : ms[a].enabled /\ ms[a].name \in ms[b].dependencies}

RECURSIVE DepsClosure(_, _, _)
DepsClosure(ms, S, n) ==
    IF n = 0 THEN S
    ELSE DepsClosure(ms, S \cup UNION {EnabledDepsOf(ms, x) : x \in S}, n - 1)

\* the enabled members b depends on, directly or transitively
TransitiveDeps(ms, b) == DepsClosure(ms, EnabledDepsOf(ms, b), Len(ms))

HasCycle(ms) ==
    \E b \in 1..Len(ms) : ms[b].enabled /\ b \in TransitiveDeps(ms, b)

\* every dependency of an enabled member names an enabled member
WellFormed(ms) ==
    \A b \in 1..Len(ms) : ms[b].enabled =>
        \A dep \in ms[b].dependencies :
            \E a \in 1..Len(ms) : ms[a].enabled /\ ms[a].name = dep

\* the layered order of the reference algorithm: a batch holds the members
\* whose dependencies were all placed by earlier batches
RECURSIVE RefLayers(_, _, _)
RefLayers(ms, remaining, placed) ==
    LET batch == SelectSeq(remaining,
                     LAMBDA m : \A dep \in ms[m].dependencies : dep \in placed)
    IN  IF batch = <<>> THEN <<>>
        ELSE <<batch>> \o
             RefLayers(ms,
                 SelectSeq(remaining,
                     LAMBDA m : \E dep \in ms[m].dependencies : dep \notin placed),
                 placed \cup {ms[batch[k]].name : k \in 1..Len(batch)})

ReferenceOrder(ms) == RefLayers(ms, EnabledMembers(ms), {})

\* the members the reference algorithm can never place
UnresolvedNames(ms) ==
    LET ref == ReferenceOrder(ms)
        placed == UNION {{ms[ref[j][k]].name : k \in 1..Len(ref[j])} : j \in 1..Len(ref)}
    IN  {ms[i].name : i \in {x \in 1..Len(ms) : ms[x].enabled}} \ placed

Computed == order # <<>>
BuildOrder == order[1]

\* the batch of a successful build order that holds member i (0 if none)
BatchIndex(bo, i) ==
    LET js == {j \in 1..Len(bo) : \E k \in 1..Len(bo[j]) : bo[j][k] = i}
    IN  IF js = {} THEN 0 ELSE CHOOSE j \in js : \A l \in js : j <= l

----------------------------------------------------------------------------
(* Claims *)

\* C1: in build_workspace, for either parallel flag and every acyclic graph
\* over the enabled members, the build of a member B is never started before
\* the build of every enabled member listed in B's dependencies has terminated.
C1_BuildStartsAfterDependencies ==
    (op = "build" /\ ~HasCycle(members)) =>
        \A b \in Idx : Started(b) =>
            \A a \in EnabledDepsOf(members, b) : Terminated(a)

\* C2: for every acyclic graph, calculate_build_order returns batches in which
\* every dependency edge (B depends on A) has A's batch index strictly less
\* than B's batch index.
C2_EdgesCrossBatches ==
    (Computed /\ ~HasCycle(members) /\ BuildOrder.ok) =>
        \A b \in Idx : members[b].enabled =>
            \A a \in EnabledDepsOf(members, b) :
                BatchIndex(BuildOrder.batches, a) < BatchIndex(BuildOrder.batches, b)

\* C3: for every acyclic graph (whose dependencies name enabled members),
\* calculate_build_order returns exactly the layered order of the reference
\* algorithm; A, B (deps [A]), C (deps [B]) gives [[A], [B], [C]].
C3_LayeredOrder ==
    (Computed /\ ~HasCycle(members) /\ WellFormed(members)) =>
        /\ BuildOrder.ok
        /\ BuildOrder.batches = ReferenceOrder(members)

\* C4: in build_workspace no member of batch N+1 is started until every
\* member of batch N has terminated and the outcome of batch N has been
\* evaluated, for parallel = TRUE and parallel = FALSE.
C4_BatchBarrier ==
    op = "build" =>
        \A j \in 1..Len(batches) : \A k \in 1..Len(batches[j]) :
            Started(batches[j][k]) =>
                /\ batch_idx >= j
                /\ \A i \in 1..(j - 1) : \A l \in 1..Len(batches[i]) :
                       Terminated(batches[i][l])

C4_Witness ==
    /\ op = "build"
    /\ parallel
    /\ Len(batches) >= 2
    /\ Len(batches[1]) >= 2
    /\ batch_idx = 2
    /\ Started(batches[2][1])

\* C5: for every graph over the enabled members that contains a dependency
\* cycle (a self dependency included), calculate_build_order fails with the
\* circular-dependency error and build_workspace returns that error without
\* having started any member subprocess.
C5_CycleRejectedBeforeExecution ==
    (op = "build" /\ HasCycle(members)) =>
        /\ ~BuildOrder.ok
        /\ BuildOrder.error = WorkspaceError(CircularMessage)
        /\ pc = "done"
        /\ result = [state |-> "err", error |-> WorkspaceError(CircularMessage)]
        /\ \A i \in Idx : status[i] = "idle"

C5_Witness ==
    /\ op = "build"
    /\ result.state = "err"
    /\ \E a, b \in Idx :
           /\ a # b
           /\ a \in EnabledDepsOf(members, b)
           /\ b \in EnabledDepsOf(members, a)
    /\ \E c \in Idx : members[c].enabled /\ members[c].dependencies = {}

\* the member names that occur in an error message
NamedMembers(error) ==
    {n \in DepNames : \E k \in 1..Len(error.message) : error.message[k] = n}

\* C6: when calculate_build_order fails because an iteration places no
\* member, the returned error names every member still unresolved, a
\* non-empty set that includes the cycle ({A, B} for A deps [B], B deps [A]).
C6_ErrorNamesUnresolved ==
    (Computed /\ ~BuildOrder.ok) =>
        /\ NamedMembers(BuildOrder.error) # {}
        /\ NamedMembers(BuildOrder.error) = UnresolvedNames(members)

\* the member list with every dependency on a disabled member left out
WithoutDisabledDeps(ms) ==
    LET disabled == {ms[i].name : i \in {x \in 1..Len(ms) : ~ms[x].enabled}}
    IN  [i \in 1..Len(ms) |->
            [ms[i] EXCEPT !.dependencies = ms[i].dependencies \ disabled]]

\* C7: a dependency of an enabled member on a disabled member is satisfied
\* by absence: calculate_build_order returns what it returns when the
\* disabled dependency is not listed.
C7_DisabledDependencySatisfied ==
    Computed => BuildOrder = calculate_build_order(WithoutDisabledDeps(members))

C9_BatchInRegistryOrder ==
    (Computed /\ BuildOrder.ok) =>
        \A j \in 1..Len(BuildOrder.batches) :
            LET batch == BuildOrder.batches[j]
            IN  \A k, l \in 1..Len(batch) : k < l => batch[k] < batch[l]

C9_Witness ==
    /\ Computed
    /\ BuildOrder.ok
    /\ \E j \in 1..Len(BuildOrder.batches) : Len(BuildOrder.batches[j]) >= 2
    /\ Len(BuildOrder.batches) >= 2

\* C10: test_workspace is batch-aware: with parallel = TRUE the test of a
\* member is never started before, nor runs together with, the test of an
\* enabled member it depends on.
C10_TestStartsAfterDependencies ==
    (op = "test" /\ parallel /\ ~HasCycle(members)) =>
        \A b \in Idx : Started(b) =>
            \A a \in EnabledDepsOf(members, b) : Terminated(a)

----------------------------------------------------------------------------
(* Claims about the execution engine *)

\* whether list j of the invocation goes through a parallel runner
ListIsParallel(j) ==
    IF op = "build" THEN parallel /\ Len(batches[j]) > 1 ELSE parallel

\* whether the runner in use stops at the first failure
StopsOnError ==
    op # "script" \/ ~scripts[args.script_name].continue_on_error

FailedIn(j) == {k \in 1..Len(batches[j]) : status[batches[j][k]] = "failed"}

Running == {i \in Idx : status[i] = "running"}

\* C11: in build_workspace, when a member of a batch fails no member of a
\* later batch is ever started; with parallel = TRUE the failure is returned
\* only after every member of the failing batch has terminated.
C11_FailureStopsLaterBatches ==
    op = "build" =>
        /\ \A j, j2 \in 1..Len(batches) :
               (j < j2 /\ FailedIn(j) # {}) =>
                   \A l \in 1..Len(batches[j2]) : ~Started(batches[j2][l])
        /\ (pc = "done" /\ result.error.kind = "CommandFailed") =>
               /\ FailedIn(batch_idx) # {}
               /\ ListIsParallel(batch_idx) =>
                      \A k \in 1..Len(batches[batch_idx]) :
                          Terminated(batches[batch_idx][k])

C11_Witness ==
    /\ op = "build"
    /\ parallel
    /\ pc = "done"
    /\ result.state = "err"
    /\ Len(batches) >= 2
    /\ batch_idx = 1
    /\ Len(batches[1]) >= 2
    /\ status[batches[1][1]] = "ok"
    /\ status[batches[1][2]] = "failed"

\* C12: in parallel mode (run_parallel, run_parallel_with_error_handling) a
\* task is started for every target member and the outcome is evaluated only
\* after all of them have terminated; a failure never cancels a sibling.
C12_ParallelJoinsAll ==
    \A j \in 1..Len(batches) :
        (ListIsParallel(j) /\ (j < batch_idx \/ (j = batch_idx /\ pc = "done"))) =>
            \A k \in 1..Len(batches[j]) : Terminated(batches[j][k])

C12_Witness ==
    /\ op = "script"
    /\ parallel
    /\ pc = "done"
    /\ result.state = "err"
    /\ Len(batches) = 1
    /\ Len(batches[1]) >= 2
    /\ status[batches[1][1]] = "failed"
    /\ status[batches[1][2]] = "ok"

\* C13: in sequential mode with continue_on_error = FALSE (run_sequential,
\* run_sequential_with_error_handling called with false) the first failure
\* is returned and no member after the failing one is ever started.
C13_SequentialStopsAtFailure ==
    \A j \in 1..Len(batches) :
        (~ListIsParallel(j) /\ StopsOnError) =>
            /\ \A k, l \in 1..Len(batches[j]) :
                   (k < l /\ status[batches[j][k]] = "failed") =>
                       ~Started(batches[j][l])
            /\ (pc = "done" /\ FailedIn(j) # {}) =>
                   (result.state = "err" /\ result.error.kind = "CommandFailed")

C13_Witness ==
    /\ op = "script"
    /\ args.script_name = "seq_stop"
    /\ pc = "done"
    /\ result.state = "err"
    /\ Len(batches) = 1
    /\ Len(batches[1]) >= 2
    /\ status[batches[1][1]] = "failed"
    /\ status[batches[1][2]] = "idle"

\* C14: in a sequential run the members execute strictly in list order and
\* one at a time: the member at position i+1 is started only after the one
\* at position i has terminated, so at most one subprocess is running.
C14_SequentialOneAtATime ==
    /\ \A j \in 1..Len(batches) :
           ~ListIsParallel(j) =>
               \A k, l \in 1..Len(batches[j]) :
                   (k < l /\ Started(batches[j][l])) => Terminated(batches[j][k])
    /\ (op # "none" /\ \A j \in 1..Len(batches) : ~ListIsParallel(j)) =>
           Cardinality(Running) <= 1

C14_Witness ==
    /\ op = "script"
    /\ args.script_name = "seq_go"
    /\ Len(batches) = 1
    /\ Len(batches[1]) >= 2
    /\ status[batches[1][1]] = "failed"
    /\ status[batches[1][2]] = "running"

\* C15: in every mode other than sequential with continue_on_error = FALSE
\* every target member is attempted despite earlier failures, and if at
\* least one member failed the call surfaces a failure after every attempted
\* member has finished.
C15_FailuresSurfaceAfterAll ==
    (op = "script" /\ pc = "done" /\ Len(batches) = 1
        /\ (parallel \/ ~StopsOnError)) =>
        /\ \A k \in 1..Len(batches[1]) : Terminated(batches[1][k])
        /\ FailedIn(1) # {} => result.state = "err"

\* C16: the error returned by a failing run_in_workspace, build_workspace,
\* test_workspace or run_script identifies a member that failed together
\* with the exit code of the failing command.
C16_ErrorIdentifiesMember ==
    (pc = "done" /\ result.state = "err" /\ result.error.kind = "CommandFailed") =>
        \E i \in Idx : /\ status[i] = "failed"
                       /\ result.error.code = <<i>>
                       /\ members[i].name \in NamedMembers(result.error)

\* C17: during any parallel operation the number of member subprocesses
\* running at the same time never exceeds max_parallel_jobs when it is set.
C17_RunningWithinMaxJobs ==
    max_parallel_jobs # <<>> => Cardinality(Running) <= max_parallel_jobs[1]

\* the members run_in_workspace is asked to run on
Selected(i) ==
    /\ members[i].enabled
    /\ args.member_names = <<>> \/ members[i].name \in args.member_names[1]

\* C18: run_in_workspace with members = None and parallel = FALSE executes
\* the command on exactly the enabled members, in registry order, skipping
\* every disabled member; with a member-name list it executes exactly the
\* enabled members whose names are in the list.
C18_RunOnSelectedEnabled ==
    op = "run" =>
        /\ \A i \in Idx : Started(i) => Selected(i)
        /\ (pc = "done" /\ result.state = "ok") =>
               \A i \in Idx : Selected(i) => status[i] = "ok"
        /\ ~parallel =>
               \A i, j \in Idx :
                   (i < j /\ Selected(i) /\ Started(j)) => status[i] = "ok"

C18_Witness ==
    /\ op = "run"
    /\ args.member_names = <<>>
    /\ ~parallel
    /\ pc = "done"
    /\ result.state = "ok"
    /\ \E i \in Idx : ~members[i].enabled
    /\ Cardinality({i \in Idx : status[i] = "ok"}) >= 2

\* C19: on every execution path (run_in_workspace, build_workspace,
\* test_workspace, run_script) no command is ever started for a member whose
\* enabled flag is false, and the member list stays as it was.
C19_DisabledNeverStarted ==
    [][/\ \A i \in Idx : ~members[i].enabled => status'[i] = "idle"
       /\ members' = members]_vars

C19_Witness ==
    /\ op = "script"
    /\ pc = "done"
    /\ result.state = "ok"
    /\ \E i \in Idx : /\ ~members[i].enabled
                      /\ members[i].name \in scripts[args.script_name].run_in_members
                      /\ status[i] = "idle"

\* the effective target set of a script
InEffectiveTargets(script, i) ==
    /\ members[i].enabled
    /\ script.run_in_members = {} \/ members[i].name \in script.run_in_members

\* C20: run_script executes the script's command on exactly the effective
\* target set (the enabled members named in run_in_members, all enabled
\* members when it is empty), in registry order without consulting
\* dependencies, using the script's run_parallel and continue_on_error flags.
C20_ScriptRunsOnEffectiveTargets ==
    (op = "script" /\ args.script_name \in DOMAIN scripts) =>
        LET script == scripts[args.script_name]
        IN  /\ \A i \in Idx : Started(i) => InEffectiveTargets(script, i)
            /\ (pc = "done" /\ result.state = "ok") =>
                   \A i \in Idx : InEffectiveTargets(script, i) =>
                       /\ Terminated(i)
                       /\ ~script.continue_on_error => status[i] = "ok"
            /\ ~script.run_parallel =>
                   \A i, j \in Idx :
                       (i < j /\ InEffectiveTargets(script, i) /\ Started(j)) =>
                           Terminated(i)
            /\ pc = "run" => parallel = script.run_parallel
            /\ (pc = "done" /\ ~script.continue_on_error
                    /\ \E i \in Idx : status[i] = "failed") =>
                   result.state = "err"

C20_Witness ==
    /\ op = "script"
    /\ args.script_name = "seq_stop"
    /\ scripts["seq_stop"].run_in_members = {MemberNames[1]}
    /\ HasCycle(members)
    /\ pc = "done"
    /\ result.state = "ok"
    /\ status[1] = "ok"
    /\ \A i \in Idx \ {1} : members[i].enabled /\ status[i] = "idle"

----------------------------------------------------------------------------
\* C21: run_script with a name that is not a key of the script map returns
\* the script-not-found error naming that script, starts no subprocess at
\* that call or afterwards, and leaves the workspace, its descriptor and the
\* member directories as they were.
C21_UnknownScriptRejected ==
    /\ [][(pc = "idle" /\ op' = "script"
              /\ args'.script_name \notin DOMAIN scripts) =>
            /\ pc' = "done"
            /\ result'.state = "err"
            /\ result'.error.kind = "Workspace"
            /\ result'.error.message = <<"Script", args'.script_name, "not", "found">>
            /\ status' = status
            /\ members' = members
            /\ scripts' = scripts
            /\ max_parallel_jobs' = max_parallel_jobs
            /\ disk' = disk
            /\ dirs' = dirs]_vars
    /\ []((op = "script" /\ args.script_name \notin DOMAIN scripts) =>
            /\ pc = "done"
            /\ \A i \in Idx : status[i] = "idle")

C21_Witness ==
    /\ op = "script"
    /\ args.script_name = "missing"
    /\ args.script_name \notin DOMAIN scripts
    /\ \E i \in Idx : members[i].enabled
    /\ pc = "done"
    /\ result.state = "err"

----------------------------------------------------------------------------
(* Claims about the registry *)

\* the step is the call of the registry operation o
Calls(o) == pc \in {"idle", "done"} /\ op' = o

\* the operation o has returned r
Returned(o, r) == op = o /\ pc = "done" /\ result.state = r

\* C22: add_member with a name that a member of the workspace already has
\* returns the error "Member '<name>' already exists" and leaves the member
\* list, the scripts, the descriptor files and the member directories as
\* they were, whatever create_project and language are.
C22_DuplicateAddRejected ==
    [][(Calls("add_member") /\ loaded
           /\ \E i \in 1..Len(members) : members[i].name = args'.name) =>
          /\ pc' = "done"
          /\ result'.state = "err"
          /\ result'.error.kind = "Workspace"
          /\ result'.error.message = <<"Member", args'.name, "already", "exists">>
          /\ members' = members
          /\ scripts' = scripts
          /\ disk' = disk
          /\ dirs' = dirs]_vars

C22_Witness ==
    /\ Returned("add_member", "err")
    /\ args.create_project
    /\ args.language # <<>>
    /\ \E i \in 1..Len(members) : members[i].name = args.name
    /\ result.error.kind = "Workspace"
    /\ result.error.message = <<"Member", args.name, "already", "exists">>

\* C23: remove_member with a name that no member of the workspace has
\* returns the error "Member '<name>' not found" and leaves the member list,
\* the descriptor files and the member directories as they were, also when
\* delete_files is true.
C23_UnknownRemoveRejected ==
    [][(Calls("remove_member") /\ loaded
           /\ \A i \in 1..Len(members) : members[i].name # args'.name) =>
          /\ pc' = "done"
          /\ result'.state = "err"
          /\ result'.error.kind = "Workspace"
          /\ result'.error.message = <<"Member", args'.name, "not", "found">>
          /\ members' = members
          /\ scripts' = scripts
          /\ disk' = disk
          /\ dirs' = dirs]_vars

C23_Witness ==
    /\ Returned("remove_member", "err")
    /\ args.delete_files
    /\ loaded
    /\ members # <<>>
    /\ dirs # {}
    /\ \A i \in 1..Len(members) : members[i].name # args.name
    /\ result.error.kind = "Workspace"
    /\ result.error.message = <<"Member", args.name, "not", "found">>

\* C24: the names of the members of the workspace are pairwise distinct,
\* before, during and after every call of init_workspace, add_member,
\* remove_member and add_script, whether the call succeeds or fails.
C24_MemberNamesDistinct ==
    \A i, j \in 1..Len(members) : i # j => members[i].name # members[j].name

C24_Witness ==
    /\ Returned("add_member", "ok")
    /\ calls = 2
    /\ Len(members) = 2
    /\ members[1].name = MemberNames[2]
    /\ members[2].name = MemberNames[1]

\* C25: every name in the dependency list of a member of the loaded
\* workspace is the name of a member of that workspace, after any sequence
\* of add_member and remove_member calls on a workspace that started so.
C25_DependenciesReferToMembers ==
    (loaded /\ pc \in {"idle", "done"}) =>
        \A i \in 1..Len(members) :
            \A dep \in members[i].dependencies :
                \E j \in 1..Len(members) : members[j].name = dep

\* C26: list_members returns the whole member list in its stored order and
\* changes no state, so a second call returns the same list; an add_member
\* that gets as far as saving has appended the new member after all others,
\* and remove_member takes one member out and keeps the others in order.
C26_ListInInsertionOrder ==
    [][/\ Calls("list_members") =>
            /\ members' = members
            /\ scripts' = scripts
            /\ max_parallel_jobs' = max_parallel_jobs
            /\ store' = store
            /\ loaded => (result'.state = "ok" /\ result'.value = members)
            /\ (loaded /\ Returned("list_members", "ok")) =>
                   result'.value = result.value
       /\ (Calls("add_member") /\ pc' = "saving") =>
            /\ Len(members') = Len(members) + 1
            /\ SubSeq(members', 1, Len(members)) = members
            /\ members'[Len(members')].name = args'.name
       /\ (Calls("remove_member") /\ members' # members) =>
            \E k \in 1..Len(members) :
                /\ members[k].name = args'.name
                /\ Len(members') = Len(members) - 1
                /\ \A i \in 1..Len(members') :
                       members'[i] = IF i < k THEN members[i] ELSE members[i + 1]
      ]_vars

C26_Witness ==
    /\ Returned("list_members", "ok")
    /\ calls = 2
    /\ Len(result.value) = 2
    /\ result.value[1].name = MemberNames[2]
    /\ result.value[2].name = MemberNames[3]

\* C27: at every moment, also while save_workspace runs and after it failed
\* or was interrupted, no descriptor file holds a truncated or partly
\* written content.
C27_DescriptorNeverPartial ==
    \A f \in Files : disk[f].kind # "partial"

\* C28: when a save_workspace called by add_member, remove_member,
\* add_script or init_workspace ends without the descriptor holding the
\* content it was called to write, the operation returns an error.
C28_SaveFailureIsReported ==
    [][(/\ op \in {"add_member", "remove_member", "add_script", "init_workspace"}
        /\ pc \in {"saving", "writing"}
        /\ pc' = "done"
        /\ disk'[<<saving[1].path, DescriptorName>>].kind = "toml" =>
               disk'[<<saving[1].path, DescriptorName>>].doc.members
                   # saving[1].workspace.members
               \/ disk'[<<saving[1].path, DescriptorName>>].doc.scripts
                   # saving[1].workspace.scripts) =>
          /\ result'.state = "err"
          /\ result'.error.kind \in {"Io", "Workspace"}]_vars

C28_Witness ==
    /\ Returned("remove_member", "err")
    /\ result.error.kind = "Io"
    /\ saving # <<>>
    /\ disk[<<saving[1].path, DescriptorName>>] = Partial
    /\ members = saving[1].workspace.members

\* C29: when init_workspace, add_member, remove_member, add_script or
\* import_workspace has returned Ok, the descriptor in the directory
\* root_path of the loaded workspace is a complete document with the
\* members of the workspace in their order, its scripts and its
\* max_parallel_jobs.
C29_DescriptorEqualsMemory ==
    \A o \in {"init_workspace", "add_member", "remove_member", "add_script",
              "import_workspace"} :
        Returned(o, "ok") =>
            LET file == disk[<<root_path, DescriptorName>>]
            IN  /\ loaded
                /\ file.kind = "toml"
                /\ file.doc.root_path = root_path
                /\ file.doc.members = members
                /\ file.doc.scripts = scripts
                /\ IF max_parallel_jobs = <<>>
                   THEN "max_parallel_jobs" \notin DOMAIN file.doc
                   ELSE /\ "max_parallel_jobs" \in DOMAIN file.doc
                        /\ file.doc.max_parallel_jobs = max_parallel_jobs[1]

C29_Witness ==
    /\ Returned("import_workspace", "ok")
    /\ root_path = "new"
    /\ max_parallel_jobs = <<>>
    /\ Len(members) = 1
    /\ disk[<<"new", DescriptorName>>].kind = "toml"

----------------------------------------------------------------------------
(* Claims about frames, status and failure handling *)

\* C31: no step of run_in_workspace, build_workspace, test_workspace or
\* run_script, from the call to the return and whatever the member
\* subprocesses do in between, changes the member list, the scripts, the
\* configuration or a descriptor file; the descriptor stays the one the
\* workspace was loaded from.
C31_RunsLeaveWorkspaceAlone ==
    /\ [][/\ members' = members
          /\ scripts' = scripts
          /\ max_parallel_jobs' = max_parallel_jobs
          /\ root_path' = root_path
          /\ loaded' = loaded
          /\ disk' = disk
          /\ dirs' = dirs]_vars
    /\ [](/\ disk[<<root_path, DescriptorName>>].kind = "toml"
          /\ disk[<<root_path, DescriptorName>>].doc.members = members
          /\ disk[<<root_path, DescriptorName>>].doc.scripts = scripts)

C31_Witness ==
    /\ op = "script"
    /\ pc = "done"
    /\ parallel
    /\ \E i, j \in Idx : status[i] = "failed" /\ status[j] = "ok"
    /\ \E i \in Idx : ~members[i].enabled
    /\ disk[<<root_path, DescriptorName>>].doc.members = members

\* C32: load_workspace on a directory that holds no descriptor file returns
\* the error "No workspace configuration found" and leaves the manager as
\* it was: still without a workspace, or still with the workspace it had.
C32_LoadMissingDescriptor ==
    [][(Calls("load_workspace")
           /\ disk[<<args'.path, DescriptorName>>].kind = "absent") =>
          /\ pc' = "done"
          /\ result'.state = "err"
          /\ result'.error.kind = "Workspace"
          /\ result'.error.message = <<"No", "workspace", "configuration", "found">>
          /\ loaded' = loaded
          /\ root_path' = root_path
          /\ members' = members
          /\ scripts' = scripts
          /\ max_parallel_jobs' = max_parallel_jobs
          /\ disk' = disk
          /\ dirs' = dirs]_vars

C32_Witness ==
    /\ Returned("load_workspace", "err")
    /\ args.path = "new"
    /\ disk[<<"new", DescriptorName>>].kind = "absent"
    /\ loaded
    /\ root_path = "ws"
    /\ Len(members) = 2
    /\ result.error.message = <<"No", "workspace", "configuration", "found">>

\* C33: init_workspace on a directory that holds a descriptor file or a
\* member directory returns the error "Directory is not empty", writes no
\* descriptor and leaves the manager's workspace as it was; so every
\* init_workspace that gets as far as saving was called on a directory that
\* holds nothing.
C33_InitNeedsEmptyDirectory ==
    [][Calls("init_workspace") =>
          /\ (\/ disk[<<args'.path, DescriptorName>>].kind # "absent"
              \/ \E d \in dirs : d[1] = args'.path) =>
                 /\ pc' = "done"
                 /\ result'.state = "err"
                 /\ result'.error.kind = "Workspace"
                 /\ result'.error.message = <<"Directory", "is", "not", "empty">>
          /\ loaded' = loaded
          /\ root_path' = root_path
          /\ members' = members
          /\ scripts' = scripts
          /\ max_parallel_jobs' = max_parallel_jobs
          /\ disk' = disk
          /\ dirs' = dirs]_vars

C33_Witness ==
    /\ Returned("init_workspace", "err")
    /\ args.path = "ws"
    /\ disk[<<"ws", DescriptorName>>].kind = "toml"
    /\ loaded
    /\ Len(members) = 2
    /\ result.error.kind = "Workspace"
    /\ result.error.message = <<"Directory", "is", "not", "empty">>

\* C34: get_status changes neither the workspace nor the disk; when it
\* returns Ok the result has one entry per member, in the order of the
\* member list, with the member's name and enabled flag, last_modified None
\* for a member whose directory is missing, total_members the number of
\* members and enabled_members the number of enabled ones; it returns an
\* error only without a workspace or on a file system error.
C34_StatusReadOnlyAndComplete ==
    [][Calls("get_status") =>
          /\ members' = members
          /\ scripts' = scripts
          /\ max_parallel_jobs' = max_parallel_jobs
          /\ store' = store
          /\ result'.state \in {"ok", "err"}
          /\ result'.state = "err" => (~loaded \/ result'.error.kind = "Io")
          /\ result'.state = "ok" =>
                 LET st == result'.value
                 IN  /\ Len(st.member_statuses) = Len(members)
                     /\ \A i \in 1..Len(members) :
                            /\ st.member_statuses[i].name = members[i].name
                            /\ st.member_statuses[i].enabled = members[i].enabled
                            /\ (\A d \in dirs :
                                    ~(d[1] = root_path /\ d[2] = members[i].name)) =>
                                   st.member_statuses[i].last_modified = <<>>
                     /\ st.total_members = Len(members)
                     /\ st.enabled_members =
                            Cardinality({i \in 1..Len(members) : members[i].enabled})
                     /\ st.enabled_members <= st.total_members]_vars

C34_Witness ==
    /\ Returned("get_status", "ok")
    /\ calls = 1
    /\ result.value.total_members = 3
    /\ result.value.enabled_members = 2
    /\ result.value.member_statuses[2].enabled = FALSE
    /\ result.value.member_statuses[2].last_modified = <<>>
    /\ result.value.member_statuses[3].last_modified # <<>>

\* C35: calculate_build_order returns on every member list, also with
\* cycles, dependencies on unknown or disabled names and members that share
\* a name: every pass of its loop either leaves fewer members remaining or
\* returns the error, the number of passes never exceeds the number of
\* enabled members, and the call reaches its return.
C35_BuildOrderTerminates ==
    /\ [](calc.iterations <= Cardinality({i \in 1..Len(members) : members[i].enabled}))
    /\ [][(pc = "calc" /\ calc'.iterations = calc.iterations + 1) =>
             \/ pc' = "calc" /\ Len(calc'.remaining) < Len(calc.remaining)
             \/ pc' = "done" /\ ~order'[1].ok]_vars
    /\ <>(pc = "done")

C35_Witness ==
    /\ pc = "done"
    /\ order[1].ok
    /\ calc.iterations = 2
    /\ members[1].name = members[3].name
    /\ \A i \in 1..Len(members) : members[i].enabled

\* the places <<batch, position>> of a build order, and their order in the
\* concatenation of the batches
Slots(bo) == {s \in (1..Len(bo)) \X Idx : s[2] <= Len(bo[s[1]])}

Before(s, t) == s[1] < t[1] \/ (s[1] = t[1] /\ s[2] < t[2])

\* C36: in a build order that calculate_build_order returned, every member
\* comes after a member of each name in its dependency list, reading the
\* batches one after the other and each batch from its first member; and a
\* build_workspace with parallel = false starts a member only when a member
\* of each name in its dependency list has been built successfully.
C36_ConcatenationTopological ==
    /\ (Computed /\ BuildOrder.ok) =>
           LET bo == BuildOrder.batches
           IN  \A s \in Slots(bo) :
                   \A dep \in members[bo[s[1]][s[2]]].dependencies :
                       \E t \in Slots(bo) :
                           /\ members[bo[t[1]][t[2]]].name = dep
                           /\ Before(t, s)
    /\ (op = "build" /\ ~parallel) =>
           \A j \in Idx : Started(j) =>
               \A dep \in members[j].dependencies :
                   \E i \in Idx : members[i].name = dep /\ status[i] = "ok"

C36_Witness ==
    /\ op = "build"
    /\ ~parallel
    /\ pc = "done"
    /\ result.state = "ok"
    /\ Len(BuildOrder.batches) = 1
    /\ members[2].dependencies = {members[1].name}
    /\ members[3].dependencies = {members[2].name}
    /\ \A i \in Idx : status[i] = "ok"

\* C37: calculate_build_order returns the circular dependency error only
\* when some enabled member depends on itself through the dependencies
\* among the enabled members; a dependency on a name that no member has
\* does not prevent a build order.
C37_CircularErrorOnlyOnCycle ==
    (Computed /\ ~BuildOrder.ok) => HasCycle(members)

\* C38: run_script on a script of the workspace always returns Ok or an
\* error value, also when the command of the script holds no word.
C38_RunScriptAlwaysReturns ==
    (op = "script" /\ pc = "done") => result.state \in {"ok", "err"}

\* C39: when run_script has run a script through
\* run_parallel_with_error_handling or run_sequential_with_error_handling,
\* the outcome follows from the members' results and continue_on_error:
\* without the flag and with a failed member it is the error of the failed
\* member that stands first in the list, otherwise it is Ok; the error
\* "Some workspace operations failed" is never the outcome.
C39_OutcomeFromResultsAndFlag ==
    (op = "script" /\ pc = "done" /\ batches # <<>>) =>
        LET list == batches[1]
            failed == {k \in 1..Len(list) : status[list[k]] = "failed"}
            continue_on_error == scripts[args.script_name].continue_on_error
        IN  /\ (~continue_on_error /\ failed # {}) =>
                   /\ result.state = "err"
                   /\ result.error.kind = "CommandFailed"
                   /\ \E k \in failed :
                          /\ \A j \in failed : k <= j
                          /\ result.error.code = <<list[k]>>
            /\ (continue_on_error \/ failed = {}) => result.state = "ok"
            /\ result.error.message # <<"Some", "workspace", "operations", "failed">>

C39_Witness ==
    /\ op = "script"
    /\ args.script_name = "par_stop"
    /\ pc = "done"
    /\ batches # <<>>
    /\ Len(batches[1]) >= 2
    /\ status[batches[1][1]] = "ok"
    /\ status[batches[1][2]] = "failed"
    /\ status[batches[1][Len(batches[1])]] = "failed"
    /\ result.state = "err"
    /\ result.error.code = <<batches[1][2]>>

\* C40: when remove_member returns an error after it found the member (the
\* deletion of the files failed, or the save failed), the files of the
\* member have not been deleted by the call and the descriptor is complete,
\* so no descriptor lists a member whose files the call has deleted.
C40_RemoveAllOrNothing ==
    (/\ Returned("remove_member", "err")
     /\ result.error # [kind |-> "Workspace",
                        message |-> <<"Member", args.name, "not", "found">>]
     /\ result.error # [kind |-> "Workspace",
                        message |-> <<"No", "workspace", "loaded">>]) =>
        /\ ~args.deleted_files
        /\ disk[<<root_path, DescriptorName>>].kind # "partial"

====
